---- MODULE Spec2Model ----
(***************************************************************************)
(* Lost & Found / Issue reporting backend: the request handlers of         *)
(* routes/lostFound.js, routes/issues.js and routes/users.js over the      *)
(* LostFound, Issue and User collections.                                  *)
(*                                                                         *)
(* Every handler is `await Model.findById(...)`, its precondition checks,  *)
(* then one `await Model.findByIdAndUpdate/Delete/create(...)`.  A request *)
(* is therefore two steps: the handler's read and checks (the actions      *)
(* named after the routes), which fix the response, and the store write    *)
(* with the response (Complete).  Other requests may run between the two   *)
(* steps of a request when more than one request is in flight.             *)
(*                                                                         *)
(* The browser side is AuthProvider (frontend/src/contexts/AuthContext.tsx)*)
(* over authService and local storage: each of its async calls is one step *)
(* per stretch between awaits.                                             *)
(***************************************************************************)
EXTENDS Naturals, FiniteSets, Sequences, TLC

VARIABLES
    users,      \* User collection: id -> [role, isActive]
    items,      \* LostFound collection: id -> document, Unborn or Gone
    issues,     \* Issue collection: id -> document, Unborn or Gone
    reqs,       \* per caller: the request in flight (after its read) or Idle
    claimWon,   \* history: per stored item, the caller whose claim was the
                \* first to be answered 200 (Null: none yet)
    upHist,     \* history: the upvote toggles answered since the last other
                \* issue request: <<[caller, id, upvotes, upvoteCount]>>, the
                \* issue as it was before each toggle (the last two)
    client      \* the browser: local storage, the state of AuthProvider and
                \* its calls that wait for a response

vars == <<users, items, issues, reqs, claimWon, upHist, client>>

----------------------------------------------------------------------------
(* Bounds of the model *)

\* requests that may be in flight together in the concurrent specification
MaxInflight == 2
\* documents alive at the same time over both collections in the
\* sequential specification (the two collections never read each other)
MaxLive == 1

Users == {"u1", "u2", "adm"}
\* an id of the right form that no user has, and a string that is no id
NoUser == "ghost"
Malformed == "not-an-id"
UserIds == Users \cup {NoUser}
UserRoles == {"student", "admin"}
\* a request that carries no valid token
Anon == "anon"
Callers == Users \cup {Anon}
ItemIds == {"i1"}
IssueIds == {"s1"}
Null == "null"

----------------------------------------------------------------------------
(* Documents *)

\* findById answers null for both: an id never created, a deleted document
Unborn == [status |-> "unborn"]
Gone == [status |-> "gone"]
Exists(doc) == doc.status \notin {"unborn", "gone"}

ItemStatuses == {"active", "claimed", "closed"}

\* lostFoundSchema defaults (title and reportedBy are required: always given)
ItemDefaults ==
    [title |-> 0, status |-> "active", reportedBy |-> Null,
     claimedBy |-> Null, claimedAt |-> Null,
     isVerified |-> FALSE, verifiedBy |-> Null, verifiedAt |-> Null]

IssueStatuses == {"pending", "in-progress", "resolved", "closed"}

\* issueSchema defaults (title and reportedBy are required: always given)
IssueDefaults ==
    [title |-> 0, status |-> "pending", reportedBy |-> Null, assignedTo |-> Null,
     upvotes |-> {}, upvoteCount |-> 0,
     resolvedAt |-> Null, resolvedBy |-> Null, resolutionNotes |-> Null]

\* issueSchema.pre('save'): runs on save() and create(), not on
\* findByIdAndUpdate()
PreSave(doc) == [doc EXCEPT !.upvoteCount = Cardinality(doc.upvotes)]

\* { ...a, ...b }: the fields of b override those of a
Merge(a, b) ==
    [k \in (DOMAIN a) \cup (DOMAIN b) |-> IF k \in DOMAIN b THEN b[k] ELSE a[k]]

\* $set of an update document on a stored document; Mongoose (strict schema)
\* drops the paths that are not in the schema
ApplyPatch(doc, patch) ==
    [k \in DOMAIN doc |-> IF k \in DOMAIN patch THEN patch[k] ELSE doc[k]]

\* findByIdAndUpdate(id, update): no document, no write (answers null)
FindByIdAndUpdate(doc, update) ==
    IF Exists(doc) THEN ApplyPatch(doc, update) ELSE doc

----------------------------------------------------------------------------
(* Validation (express-validator chains) *)

MinTitleLen == 5
MaxTitleLen == 100

\* body('title').trim().isLength({ min: 5, max: 100 }); a title is modelled
\* by its length after trim()
TitleOk(len) == MinTitleLen <= len /\ len <= MaxTitleLen

\* the update chains are .optional(): checked only when the field is present
PatchValid(patch) == "title" \in DOMAIN patch => TitleOk(patch.title)

\* the create chains are not optional
BodyValid(body) == "title" \in DOMAIN body /\ TitleOk(body.title)

\* The chains of POST /api/lost-found.  A body of the model names title and
\* the validated fields a specification varies; a validated field it does
\* not name has a valid value in the request.  Texts are modelled by their
\* length after trim(), images by the length of the array, the phone by its
\* number of digits, a date by [month, day] (NotADate: no date string).
ItemChains ==
    {"title", "description", "category", "type", "location", "date", "images",
     "phone", "email"}

ItemCategories ==
    {"electronics", "clothing", "books", "accessories", "documents", "keys",
     "bags", "other"}

NotADate == [month |-> 0, day |-> 0]

\* isISO8601() without { strict: true }: validator.js tests the form of the
\* string only (month 01-12, day 01-31), not the day against the month
IsISO8601(d) == d.month \in 1..12 /\ d.day \in 1..31

\* isEmail(): an address is modelled by whether it has the form of one
IsEmail(e) == e = "a@b.c"

ChainOk(f, v) ==
    CASE f = "title" -> TitleOk(v)
      [] f = "description" -> 10 <= v /\ v <= 500
      [] f = "category" -> v \in ItemCategories
      [] f = "type" -> v \in {"lost", "found"}
      [] f = "location" -> 3 <= v /\ v <= 100
      [] f = "date" -> IsISO8601(v)
      [] f = "images" -> v >= 1
      [] f = "phone" -> v = 10
      [] f = "email" -> IsEmail(v)

\* errors.array(): one entry for every chain that failed
ItemErrors(body) ==
    (IF BodyValid(body) THEN {} ELSE {"title"})
    \cup {f \in ItemChains \cap DOMAIN body : ~ChainOk(f, body[f])}

----------------------------------------------------------------------------
(* Inputs *)

TitleLens == {MinTitleLen - 1, MinTitleLen, MinTitleLen + 1}

\* update documents that edit a validated field
ItemEdits == {[title |-> t] : t \in TitleLens}

\* request bodies naming schema paths no validator chain looks at
ItemMass ==
    {[status |-> s] : s \in ItemStatuses}
    \cup {[reportedBy |-> u] : u \in Users}
    \cup {[claimedBy |-> u] : u \in Users}
    \cup {[isVerified |-> b] : b \in BOOLEAN}

ItemPatches == ItemEdits \cup ItemMass
ItemBodies == ItemEdits \cup {Merge([title |-> MinTitleLen], x) : x \in ItemMass}

IssueEdits == {[title |-> t] : t \in {MinTitleLen - 1, MinTitleLen}}

IssueMass ==
    {[status |-> s] : s \in IssueStatuses}
    \cup {[reportedBy |-> u] : u \in Users}

IssuePatches == IssueEdits \cup IssueMass
IssueBodies ==
    IssueEdits
    \cup {Merge([title |-> MinTitleLen], x) : x \in IssueMass}
    \cup {[title |-> MinTitleLen, upvotes |-> {u}] : u \in Users}

\* create bodies over every validated field of an item: a value that meets
\* the constraint of the field and one that does not; for the date also a
\* string of the ISO form that is no day of the calendar (February 30th)
CreateBodies ==
    [title : {MinTitleLen - 1, MinTitleLen}, description : {9, 10},
     category : {"other", "bogus"}, type : {"lost", "bogus"}, location : {2, 3},
     date : {NotADate, [month |-> 2, day |-> 28], [month |-> 2, day |-> 30]},
     images : {0, 1}, phone : {9, 10}, email : {"a@b.c", "nomail"}]

\* assignedTo of an assign request
AssignTargets == {"adm"}

\* resolutionNotes of a status request: Null is a request without notes
NoteInputs == {Null}

\* the same two inputs for the specification of the admin routes: an
\* assignee that is a user, one that is not and a malformed id; a request
\* without notes, with empty notes and with notes
AdminTargets == {"u2", NoUser, Malformed}
AdminNotes == {Null, "", "n1"}

\* req.body.role of a role request
RoleInputs == UserRoles \cup {"bogus"}

\* req.params.id of the user requests that run next to item and issue
\* requests: a user, and an id no user has
StoreTargets == {"u2", NoUser}
\* and the inputs of the issue routes there: the caller of upvote,
\* req.body.assignedTo, req.body.status
StoreVoters == {"u1"}
StoreAssignees == {"adm", Malformed}
StoreStatuses == {"resolved", "bogus"}

----------------------------------------------------------------------------
(* Authorization gate *)

\* protect: no caller / a deactivated caller is turned away
Protect(c) ==
    IF c \notin Users THEN "Unauthenticated"
    ELSE IF ~users[c].isActive THEN "AccountDisabled"
    ELSE "ok"

\* authorize(role)
Authorize(c, role) == IF users[c].role = role THEN "ok" ELSE "Forbidden"

\* item.reportedBy.toString() !== req.user._id.toString()
\*   && req.user.role !== 'admin'  ->  403
\* (the check without its role clause)
OwnerOnly(c, owner) == owner = c
RequireOwnerOrAdmin(c, owner) == owner = c \/ users[c].role = "admin"

----------------------------------------------------------------------------
(* Requests *)

NoArg == [none |-> TRUE]
Idle == [op |-> "idle", id |-> Null, arg |-> NoArg, outcome |-> Null]
\* a request after the handler's read and checks: the response they fixed
\* and, when it goes on to the store, the document it writes
Req(op, id, arg, outcome) ==
    [op |-> op, id |-> id, arg |-> IF outcome = "ok" THEN arg ELSE NoArg,
     outcome |-> outcome]

Inflight == {c \in Callers : reqs[c].op # "idle"}
Live == {i \in ItemIds : Exists(items[i])} \cup {s \in IssueIds : Exists(issues[s])}

\* a caller sends one request at a time; lim is the number of requests the
\* specification lets run together
CanBegin(lim, c) == reqs[c].op = "idle" /\ Cardinality(Inflight) < lim

Begin(c, r) ==
    /\ reqs' = [reqs EXCEPT ![c] = r]
    /\ UNCHANGED <<users, items, issues, claimWon, upHist, client>>

----------------------------------------------------------------------------
(* routes/lostFound.js: the handlers up to their store write *)

\* POST /api/lost-found
ItemCreateOutcome(c, body) ==
    IF Protect(c) # "ok" THEN Protect(c)
    ELSE IF ItemErrors(body) # {} THEN "ValidationError"
    ELSE "ok"

\* res.status(400).json({ message: 'Validation failed', errors: errors.array() })
\* (kept with the body it answers)
ValidationFailed(op, body, errors) ==
    [op |-> op, id |-> Null, arg |-> [body |-> body, errors |-> errors],
     outcome |-> "ValidationError"]

\* itemData = { ...req.body, reportedBy: req.user._id }
ItemData(c, body) == Merge(body, [reportedBy |-> c])

\* PUT /api/lost-found/:id
ItemUpdateOutcome(c, doc, patch) ==
    IF Protect(c) # "ok" THEN Protect(c)
    ELSE IF ~PatchValid(patch) THEN "ValidationError"
    ELSE IF ~Exists(doc) THEN "NotFound"
    ELSE IF ~RequireOwnerOrAdmin(c, doc.reportedBy) THEN "Forbidden"
    ELSE "ok"

\* PUT /api/lost-found/:id/claim
\* (the handler with its own-item check ahead of its status check)
ItemClaimSelfFirst(c, doc) ==
    IF Protect(c) # "ok" THEN Protect(c)
    ELSE IF ~Exists(doc) THEN "NotFound"
    ELSE IF doc.reportedBy = c THEN "SelfActionError"
    ELSE IF doc.status # "active" THEN "InvalidTransition"
    ELSE "ok"
\* (the route without protect in its chain)
ItemClaimNoProtect(c, doc) ==
    IF ~Exists(doc) THEN "NotFound"
    ELSE IF doc.status # "active" THEN "InvalidTransition"
    ELSE IF doc.reportedBy = c THEN "SelfActionError"
    ELSE "ok"
ItemClaimOutcome(c, doc) ==
    IF Protect(c) # "ok" THEN Protect(c)
    ELSE IF ~Exists(doc) THEN "NotFound"
    ELSE IF doc.status # "active" THEN "InvalidTransition"
    ELSE IF doc.reportedBy = c THEN "SelfActionError"
    ELSE "ok"

ClaimUpdate(c) == [status |-> "claimed", claimedBy |-> c, claimedAt |-> "t"]

\* PUT /api/lost-found/:id/verify
\* (the handler without its `if (!item)` answer)
ItemVerifyNoLookup(c, doc) ==
    IF Protect(c) # "ok" THEN Protect(c)
    ELSE IF Authorize(c, "admin") # "ok" THEN Authorize(c, "admin")
    ELSE "ok"
\* (the route without authorize('admin') in its chain)
ItemVerifyNoRole(c, doc) ==
    IF Protect(c) # "ok" THEN Protect(c)
    ELSE IF ~Exists(doc) THEN "NotFound"
    ELSE "ok"
ItemVerifyOutcome(c, doc) ==
    IF Protect(c) # "ok" THEN Protect(c)
    ELSE IF Authorize(c, "admin") # "ok" THEN Authorize(c, "admin")
    ELSE IF ~Exists(doc) THEN "NotFound"
    ELSE "ok"

VerifyUpdate(c) == [isVerified |-> TRUE, verifiedBy |-> c, verifiedAt |-> "t"]

\* PUT /api/lost-found/:id/close and DELETE /api/lost-found/:id
\* (the handlers with a check that the item is not closed yet)
ItemOwnerNotClosed(c, doc) ==
    IF Protect(c) # "ok" THEN Protect(c)
    ELSE IF ~Exists(doc) THEN "NotFound"
    ELSE IF ~RequireOwnerOrAdmin(c, doc.reportedBy) THEN "Forbidden"
    ELSE IF doc.status = "closed" THEN "InvalidTransition"
    ELSE "ok"
ItemOwnerOutcome(c, doc) ==
    IF Protect(c) # "ok" THEN Protect(c)
    ELSE IF ~Exists(doc) THEN "NotFound"
    ELSE IF ~RequireOwnerOrAdmin(c, doc.reportedBy) THEN "Forbidden"
    ELSE "ok"

CloseUpdate == [status |-> "closed"]

ItemCreate(lim, c, body) ==
    /\ CanBegin(lim, c)
    /\ \E i \in ItemIds : items[i] = Unborn
    /\ Cardinality(Live) < MaxLive
    /\ Begin(c, IF ItemCreateOutcome(c, body) = "ValidationError"
                THEN ValidationFailed("itemCreate", body, ItemErrors(body))
                ELSE Req("itemCreate", Null, ItemData(c, body), ItemCreateOutcome(c, body)))

ItemUpdate(lim, c, i, patch) ==
    /\ CanBegin(lim, c)
    /\ Begin(c, Req("itemUpdate", i, patch, ItemUpdateOutcome(c, items[i], patch)))

ItemClaim(lim, c, i) ==
    /\ CanBegin(lim, c)
    /\ Begin(c, Req("itemClaim", i, ClaimUpdate(c), ItemClaimOutcome(c, items[i])))

ItemVerify(lim, c, i) ==
    /\ CanBegin(lim, c)
    /\ Begin(c, Req("itemVerify", i, VerifyUpdate(c), ItemVerifyOutcome(c, items[i])))

ItemClose(lim, c, i) ==
    /\ CanBegin(lim, c)
    /\ Begin(c, Req("itemClose", i, CloseUpdate, ItemOwnerOutcome(c, items[i])))

ItemDelete(lim, c, i) ==
    /\ CanBegin(lim, c)
    /\ Begin(c, Req("itemDelete", i, NoArg, ItemOwnerOutcome(c, items[i])))

----------------------------------------------------------------------------
(* routes/issues.js: the handlers up to their store write *)

\* POST /api/issues
IssueCreateOutcome(c, body) ==
    IF Protect(c) # "ok" THEN Protect(c)
    ELSE IF ~BodyValid(body) THEN "ValidationError"
    ELSE "ok"

\* issueData = { ...req.body, reportedBy: req.user._id }
IssueData(c, body) == Merge(body, [reportedBy |-> c])

\* PUT /api/issues/:id
IssueUpdateOutcome(c, doc, patch) ==
    IF Protect(c) # "ok" THEN Protect(c)
    ELSE IF ~PatchValid(patch) THEN "ValidationError"
    ELSE IF ~Exists(doc) THEN "NotFound"
    ELSE IF ~RequireOwnerOrAdmin(c, doc.reportedBy) THEN "Forbidden"
    ELSE "ok"

\* PUT /api/issues/:id/upvote and DELETE /api/issues/:id (the latter with
\* the ownership check)
IssueFoundOutcome(c, doc) ==
    IF Protect(c) # "ok" THEN Protect(c)
    ELSE IF ~Exists(doc) THEN "NotFound"
    ELSE "ok"

IssueDeleteOutcome(c, doc) ==
    IF IssueFoundOutcome(c, doc) # "ok" THEN IssueFoundOutcome(c, doc)
    ELSE IF ~RequireOwnerOrAdmin(c, doc.reportedBy) THEN "Forbidden"
    ELSE "ok"

\* isUpvoted = issue.upvotes.includes(userId) picks the update operator
\* (the handler without its isUpvoted branch)
AlwaysAddToSet(doc, c) == [addToSet |-> c]
UpvoteUpdate(doc, c) ==
    IF Exists(doc) /\ c \in doc.upvotes THEN [pull |-> c] ELSE [addToSet |-> c]

\* { $pull: { upvotes: userId } } and { $addToSet: { upvotes: userId } }
\* (the write as a $set of the array to the caller alone)
SetUpvotes(doc, update) ==
    IF ~Exists(doc) THEN doc
    ELSE IF "pull" \in DOMAIN update
        THEN [doc EXCEPT !.upvotes = {}]
    ELSE [doc EXCEPT !.upvotes = {update.addToSet}]
ApplyUpvote(doc, update) ==
    IF ~Exists(doc) THEN doc
    ELSE IF "pull" \in DOMAIN update
        THEN [doc EXCEPT !.upvotes = @ \ {update.pull}]
    ELSE [doc EXCEPT !.upvotes = @ \cup {update.addToSet}]

\* body('assignedTo').isMongoId(): a check of the form of the id
IsMongoId(a) == a # Malformed

\* PUT /api/issues/:id/assign: protect, authorize('admin'),
\* body('assignedTo').isMongoId(), findById
IssueAssignOutcome(c, doc, a) ==
    IF Protect(c) # "ok" THEN Protect(c)
    ELSE IF Authorize(c, "admin") # "ok" THEN Authorize(c, "admin")
    ELSE IF ~IsMongoId(a) THEN "ValidationError"
    ELSE IF ~Exists(doc) THEN "NotFound"
    ELSE "ok"

\* { assignedTo: req.body.assignedTo, status: 'in-progress' }
\* (the update document without its status)
AssignOnly(a) == [assignedTo |-> a]
AssignUpdate(a) == [assignedTo |-> a, status |-> "in-progress"]

\* PUT /api/issues/:id/status: protect, authorize('admin'),
\* body('status').isIn([...]), findById
\* (the handler with a check that a closed issue is not reopened)
IssueStatusNoReopen(c, doc, st) ==
    IF Protect(c) # "ok" THEN Protect(c)
    ELSE IF Authorize(c, "admin") # "ok" THEN Authorize(c, "admin")
    ELSE IF st \notin IssueStatuses THEN "ValidationError"
    ELSE IF ~Exists(doc) THEN "NotFound"
    ELSE IF doc.status = "closed" /\ st # "closed" THEN "InvalidTransition"
    ELSE "ok"
IssueStatusOutcome(c, doc, st) ==
    IF Protect(c) # "ok" THEN Protect(c)
    ELSE IF Authorize(c, "admin") # "ok" THEN Authorize(c, "admin")
    ELSE IF st \notin IssueStatuses THEN "ValidationError"
    ELSE IF ~Exists(doc) THEN "NotFound"
    ELSE "ok"

\* if (req.body.resolutionNotes): undefined and the empty string are falsy
Truthy(notes) == notes \notin {Null, ""}

\* updateData of the status handler
\* (the handler without its `if (req.body.status === 'resolved')` block)
StatusOnly(c, st, notes) ==
    Merge([status |-> st],
          IF Truthy(notes) THEN [resolutionNotes |-> notes] ELSE [status |-> st])
\* (the handler with the notes set inside the 'resolved' block)
StatusNotesOnResolve(c, st, notes) ==
    IF st = "resolved"
    THEN Merge([status |-> st, resolvedAt |-> "t", resolvedBy |-> c],
               IF Truthy(notes) THEN [resolutionNotes |-> notes] ELSE [status |-> st])
    ELSE [status |-> st]
StatusUpdate(c, st, notes) ==
    Merge(Merge([status |-> st],
                IF st = "resolved"
                THEN [status |-> st, resolvedAt |-> "t", resolvedBy |-> c]
                ELSE [status |-> st]),
          IF Truthy(notes) THEN [resolutionNotes |-> notes] ELSE [status |-> st])

\* the request keeps, next to updateData, the req.body.resolutionNotes it
\* came with; `given` is no path of the schema, so the write ignores it
StatusRequest(c, st, notes) == Merge(StatusUpdate(c, st, notes), [given |-> notes])

IssueCreate(lim, c, body) ==
    /\ CanBegin(lim, c)
    /\ \E s \in IssueIds : issues[s] = Unborn
    /\ Cardinality(Live) < MaxLive
    /\ Begin(c, Req("issueCreate", Null, IssueData(c, body), IssueCreateOutcome(c, body)))

IssueUpdate(lim, c, s, patch) ==
    /\ CanBegin(lim, c)
    /\ Begin(c, Req("issueUpdate", s, patch, IssueUpdateOutcome(c, issues[s], patch)))

IssueUpvote(lim, c, s) ==
    /\ CanBegin(lim, c)
    /\ Begin(c, Req("issueUpvote", s, UpvoteUpdate(issues[s], c), IssueFoundOutcome(c, issues[s])))

IssueAssign(lim, c, s, a) ==
    /\ CanBegin(lim, c)
    /\ Begin(c, Req("issueAssign", s, AssignUpdate(a), IssueAssignOutcome(c, issues[s], a)))

IssueStatus(lim, c, s, st, notes) ==
    /\ CanBegin(lim, c)
    /\ Begin(c, Req("issueStatus", s, StatusRequest(c, st, notes), IssueStatusOutcome(c, issues[s], st)))

IssueDelete(lim, c, s) ==
    /\ CanBegin(lim, c)
    /\ Begin(c, Req("issueDelete", s, NoArg, IssueDeleteOutcome(c, issues[s])))

----------------------------------------------------------------------------
(* routes/users.js: the handlers up to their store write *)

\* PUT /api/users/:id/role
\* (the handler without its `user._id === req.user._id` check)
UserRoleNoSelfCheck(c, t, role) ==
    IF Protect(c) # "ok" THEN Protect(c)
    ELSE IF Authorize(c, "admin") # "ok" THEN Authorize(c, "admin")
    ELSE IF role \notin UserRoles THEN "ValidationError"
    ELSE IF t \notin Users THEN "NotFound"
    ELSE "ok"
UserRoleOutcome(c, t, role) ==
    IF Protect(c) # "ok" THEN Protect(c)
    ELSE IF Authorize(c, "admin") # "ok" THEN Authorize(c, "admin")
    ELSE IF role \notin UserRoles THEN "ValidationError"
    ELSE IF t \notin Users THEN "NotFound"
    ELSE IF t = c THEN "SelfActionError"
    ELSE "ok"

\* { role: req.body.role }
RoleUpdate(role) == [role |-> role]

\* PUT /api/users/:id/toggle-active
UserToggleOutcome(c, t) ==
    IF Protect(c) # "ok" THEN Protect(c)
    ELSE IF Authorize(c, "admin") # "ok" THEN Authorize(c, "admin")
    ELSE IF t \notin Users THEN "NotFound"
    ELSE IF t = c THEN "SelfActionError"
    ELSE "ok"

\* { isActive: !user.isActive }, of the user the handler read
ToggleUpdate(t) == IF t \in Users THEN [isActive |-> ~users[t].isActive] ELSE NoArg

UserRole(lim, c, t, role) ==
    /\ CanBegin(lim, c)
    /\ Begin(c, Req("userRole", t, RoleUpdate(role), UserRoleOutcome(c, t, role)))

UserToggleActive(lim, c, t) ==
    /\ CanBegin(lim, c)
    /\ Begin(c, Req("userToggle", t, ToggleUpdate(t), UserToggleOutcome(c, t)))

----------------------------------------------------------------------------
(* The public reads of both routers *)

\* GET /api/lost-found/:id and GET /api/issues/:id
GetOutcome(doc) == IF ~Exists(doc) THEN "NotFound" ELSE "ok"

ItemList(lim, c) ==
    /\ CanBegin(lim, c)
    /\ Begin(c, Req("itemList", Null, NoArg, "ok"))

ItemGet(lim, c, i) ==
    /\ CanBegin(lim, c)
    /\ Begin(c, Req("itemGet", i, NoArg, GetOutcome(items[i])))

IssueList(lim, c) ==
    /\ CanBegin(lim, c)
    /\ Begin(c, Req("issueList", Null, NoArg, "ok"))

IssueGet(lim, c, s) ==
    /\ CanBegin(lim, c)
    /\ Begin(c, Req("issueGet", s, NoArg, GetOutcome(issues[s])))

----------------------------------------------------------------------------
(* The store write of a request and its response *)

UserOps == {"userRole", "userToggle"}

\* the User collection after the write of request r
UserWrite(r) ==
    IF r.outcome = "ok" /\ r.op \in UserOps /\ r.id \in Users
    THEN [users EXCEPT ![r.id] = ApplyPatch(@, r.arg)]
    ELSE users

ItemOps == {"itemCreate", "itemUpdate", "itemClaim", "itemVerify", "itemClose", "itemDelete"}

\* the LostFound collection after the write of request r
\* (the delete handler with findByIdAndDelete ahead of its checks)
ItemWriteDeleteFirst(r) ==
    IF r.op = "itemDelete"
        THEN [items EXCEPT ![r.id] = IF Exists(@) THEN Gone ELSE @]
    ELSE IF r.outcome # "ok" THEN items
    ELSE IF r.op = "itemCreate"
        THEN LET i == CHOOSE x \in ItemIds : items[x] = Unborn
             IN  [items EXCEPT ![i] = ApplyPatch(ItemDefaults, r.arg)]
    ELSE IF r.op \in ItemOps
        THEN [items EXCEPT ![r.id] = FindByIdAndUpdate(@, r.arg)]
    ELSE items
ItemWrite(r) ==
    IF r.outcome # "ok" THEN items
    ELSE IF r.op = "itemCreate"
        THEN LET i == CHOOSE x \in ItemIds : items[x] = Unborn
             IN  [items EXCEPT ![i] = ApplyPatch(ItemDefaults, r.arg)]
    ELSE IF r.op = "itemDelete"
        THEN [items EXCEPT ![r.id] = IF Exists(@) THEN Gone ELSE @]
    ELSE IF r.op \in ItemOps
        THEN [items EXCEPT ![r.id] = FindByIdAndUpdate(@, r.arg)]
    ELSE items

IssueOps == {"issueCreate", "issueUpdate", "issueUpvote", "issueAssign", "issueStatus", "issueDelete"}

\* the Issue collection after the write of request r
IssueWrite(r) ==
    IF r.outcome # "ok" THEN issues
    ELSE IF r.op = "issueCreate"
        THEN LET s == CHOOSE x \in IssueIds : issues[x] = Unborn
             IN  [issues EXCEPT ![s] = PreSave(ApplyPatch(IssueDefaults, r.arg))]
    ELSE IF r.op = "issueDelete"
        THEN [issues EXCEPT ![r.id] = IF Exists(@) THEN Gone ELSE @]
    ELSE IF r.op = "issueUpvote"
        THEN [issues EXCEPT ![r.id] = ApplyUpvote(@, r.arg)]
    ELSE IF r.op \in IssueOps
        THEN [issues EXCEPT ![r.id] = FindByIdAndUpdate(@, r.arg)]
    ELSE issues

\* the toggles answered in a row by one caller on one issue, each with the
\* upvotes and upvoteCount it found
UpHistAfter(c, r) ==
    IF r.op = "issueUpvote" /\ r.outcome = "ok" /\ Exists(issues[r.id])
    THEN LET e == [caller |-> c, id |-> r.id,
                   upvotes |-> issues[r.id].upvotes,
                   upvoteCount |-> issues[r.id].upvoteCount]
         IN  IF upHist # <<>> /\ upHist[Len(upHist)].caller = c
                              /\ upHist[Len(upHist)].id = r.id
             THEN <<upHist[Len(upHist)], e>>
             ELSE <<e>>
    ELSE <<>>

\* what a request that passed its checks answers after its write: the
\* handlers send res.json(updated) without looking at it (200 with null when
\* the document has gone since the read; delete sends its message); the
\* upvote handler reads updatedIssue._id first, which throws on null and
\* ends in the catch block's 500
Response(r) ==
    IF r.outcome # "ok" THEN r.outcome
    ELSE IF r.op = "issueUpvote" /\ ~Exists(issues[r.id]) THEN "ServerError"
    ELSE "ok"

Complete(c) ==
    LET r == reqs[c] IN
    /\ r.op # "idle"
    /\ r.op = "itemCreate" /\ r.outcome = "ok" => \E i \in ItemIds : items[i] = Unborn
    /\ r.op = "issueCreate" /\ r.outcome = "ok" => \E s \in IssueIds : issues[s] = Unborn
    /\ items' = ItemWrite(r)
    /\ issues' = IssueWrite(r)
    /\ upHist' = UpHistAfter(c, r)
    /\ reqs' = [reqs EXCEPT ![c] = Idle]
    /\ claimWon' = IF r.op = "itemClaim" /\ r.outcome = "ok"
                       THEN [claimWon EXCEPT ![r.id] = IF @ = Null THEN c ELSE @]
                   ELSE IF r.op = "itemDelete" /\ r.outcome = "ok"
                       THEN [claimWon EXCEPT ![r.id] = Null]
                   ELSE claimWon
    /\ users' = UserWrite(r)
    /\ UNCHANGED client

----------------------------------------------------------------------------
(* frontend/src/contexts/AuthContext.tsx and services/auth: the browser *)

\* the accounts that sign in from this browser
ClientUsers == {"u1", "u2"}

\* localStorage.getItem('token') when there is none
NoToken == Null
\* what localStorage.setItem('token', null) leaves there: the string 'null'
NullString == "'null'"

\* response.token of /auth/login and /auth/register: a token of the
\* account's session
TokenOf(u) ==
    CASE u = "u1" -> "jwt-u1"
      [] u = "u2" -> "jwt-u2"
      [] OTHER -> "jwt-adm"

\* the caller a token stands for at the server
Verify(t) ==
    IF \E u \in Users : TokenOf(u) = t
    THEN CHOOSE u \in Users : TokenOf(u) = t
    ELSE Anon

\* the token a request of the api client carries: the one local storage
\* holds when the request is issued
Bearer == client.token

\* GET /auth/me and PUT /auth/profile, behind protect
MeOutcome(sent) == Protect(Verify(sent))

\* what an awaited call may end with: the server's answer, or a rejection
\* without one (the request failed on its way)
Responses(outcome) == {outcome, "NetworkError"}
AuthAnswers == {"ok", "Unauthenticated", "AccountDisabled", "NetworkError"}

NoCall == [pc |-> "idle", op |-> Null, who |-> Null, token |-> NoToken, sent |-> NoToken]

\* AuthProvider as mounted: useState(null), useState(true), initAuth not
\* yet run; local storage as an earlier visit left it.  loggedOut is
\* history: logout has run and no login or register has succeeded since
Mounted(token) ==
    [token |-> token,
     saved |-> IF token = NoToken THEN Null ELSE Verify(token),
     user |-> Null, loading |-> TRUE, toast |-> Null,
     init |-> [pc |-> "start", sent |-> NoToken],
     auth |-> NoCall,
     profile |-> [pc |-> "idle", sent |-> NoToken],
     loggedOut |-> FALSE]

\* authService.setAuthData(token, user); setItem stores String(token)
setAuthData(cl, token, user) ==
    [cl EXCEPT !.token = IF token = NoToken THEN NullString ELSE token,
               !.saved = user]

\* authService.logout()
removeAuthData(cl) == [cl EXCEPT !.token = NoToken, !.saved = Null]

\* !!user of the context value, authService.isAuthenticated()
isAuthenticated == client.user # Null
HasToken == client.token # NoToken

StoreUnchanged == UNCHANGED <<users, items, issues, reqs, claimWon, upHist>>

\* initAuth up to its await: getToken(), and getCurrentUser() when there is
\* a token
initAuth ==
    /\ client.init.pc = "start"
    /\ client' = IF HasToken
                 THEN [client EXCEPT !.init = [pc |-> "me", sent |-> Bearer]]
                 ELSE [client EXCEPT !.init.pc = "done", !.loading = FALSE]
    /\ StoreUnchanged

\* initAuth after its await: setUser(userData), or the catch block's
\* authService.logout(); finally setLoading(false)
initAuthSettled(res) ==
    /\ client.init.pc = "me"
    /\ res \in Responses(MeOutcome(client.init.sent))
    /\ client' =
          IF res = "ok"
          THEN [client EXCEPT !.user = Verify(client.init.sent), !.loading = FALSE,
                              !.init = [pc |-> "done", sent |-> NoToken]]
          ELSE [removeAuthData(client) EXCEPT !.loading = FALSE,
                              !.init = [pc |-> "done", sent |-> NoToken]]
    /\ StoreUnchanged

\* login and register up to their first await: authService.login(...) /
\* authService.register(...)
SignIn(op, u) ==
    /\ client.auth.pc = "idle"
    /\ client' = [client EXCEPT !.auth = [NoCall EXCEPT !.pc = "post", !.op = op, !.who = u]]
    /\ StoreUnchanged

login(u) == SignIn("login", u)
register(u) == SignIn("register", u)

\* the same after the first await: response holds the token, and
\* getCurrentUser() is issued; or the catch block
SignInAnswered(res) ==
    /\ client.auth.pc = "post"
    /\ res \in Responses("ok")
    /\ client' =
          IF res = "ok"
          THEN [client EXCEPT !.auth.pc = "me",
                              !.auth.token = TokenOf(client.auth.who),
                              !.auth.sent = Bearer]
          ELSE [client EXCEPT !.auth = NoCall, !.toast = "error"]
    /\ StoreUnchanged

\* the same after the second await: setAuthData(response.token, userData),
\* setUser(userData), toast.success; or the catch block
SignInSettled(res) ==
    /\ client.auth.pc = "me"
    /\ res \in Responses(MeOutcome(client.auth.sent))
    /\ client' =
          IF res = "ok"
          THEN [setAuthData(client, client.auth.token, Verify(client.auth.sent))
                   EXCEPT !.user = Verify(client.auth.sent), !.toast = "success",
                          !.auth = NoCall, !.loggedOut = FALSE]
          ELSE [client EXCEPT !.auth = NoCall, !.toast = "error"]
    /\ StoreUnchanged

\* logout: authService.logout(), setUser(null), toast.success
logout ==
    /\ client' = [removeAuthData(client) EXCEPT !.user = Null, !.toast = "success",
                                                !.loggedOut = TRUE]
    /\ StoreUnchanged

\* updateProfile up to its await: authService.updateProfile(data)
updateProfile ==
    /\ client.profile.pc = "idle"
    /\ client' = [client EXCEPT !.profile = [pc |-> "put", sent |-> Bearer]]
    /\ StoreUnchanged

\* updateProfile after its await: setUser(updatedUser),
\* setAuthData(getToken()!, updatedUser), toast.success; or the catch block
updateProfileSettled(res) ==
    /\ client.profile.pc = "put"
    /\ res \in Responses(MeOutcome(client.profile.sent))
    /\ client' =
          IF res = "ok"
          THEN [setAuthData(client, client.token, Verify(client.profile.sent))
                   EXCEPT !.user = Verify(client.profile.sent), !.toast = "success",
                          !.profile = [pc |-> "idle", sent |-> NoToken]]
          ELSE [client EXCEPT !.toast = "error",
                              !.profile = [pc |-> "idle", sent |-> NoToken]]
    /\ StoreUnchanged

----------------------------------------------------------------------------
(* Specifications *)

Init ==
    /\ users = [u \in Users |->
                 [role |-> IF u = "adm" THEN "admin" ELSE "student", isActive |-> TRUE]]
    /\ items = [i \in ItemIds |-> Unborn]
    /\ issues = [s \in IssueIds |-> Unborn]
    /\ reqs = [c \in Callers |-> Idle]
    /\ claimWon = [i \in ItemIds |-> Null]
    /\ upHist = <<>>
    /\ client = Mounted(NoToken)

\* the item routes, lim requests at a time, over the given request bodies
ItemRequest(lim, bodies, patches) ==
    \/ \E c \in Users, body \in bodies : ItemCreate(lim, c, body)
    \/ \E c \in Users, i \in ItemIds, patch \in patches : ItemUpdate(lim, c, i, patch)
    \/ \E c \in Users, i \in ItemIds : ItemClaim(lim, c, i)
    \/ \E c \in Users, i \in ItemIds : ItemVerify(lim, c, i)
    \/ \E c \in Users, i \in ItemIds : ItemClose(lim, c, i)
    \/ \E c \in Users, i \in ItemIds : ItemDelete(lim, c, i)

\* the issue routes
IssueRequest(lim, bodies, patches, targets, statuses, notes) ==
    \/ \E c \in Users, body \in bodies : IssueCreate(lim, c, body)
    \/ \E c \in Users, s \in IssueIds, patch \in patches : IssueUpdate(lim, c, s, patch)
    \/ \E c \in Users, s \in IssueIds : IssueUpvote(lim, c, s)
    \/ \E c \in Users, s \in IssueIds, a \in targets : IssueAssign(lim, c, s, a)
    \/ \E c \in Users, s \in IssueIds, st \in statuses, n \in notes :
           IssueStatus(lim, c, s, st, n)
    \/ \E c \in Users, s \in IssueIds : IssueDelete(lim, c, s)

\* requests one after another, every request body of the input sets
Next ==
    \/ ItemRequest(1, ItemBodies, ItemPatches)
    \/ IssueRequest(1, IssueBodies, IssuePatches, AssignTargets, IssueStatuses, NoteInputs)
    \/ \E c \in Users : Complete(c)

Spec == Init /\ [][Next]_vars

\* the same, the item routes alone
NextItems ==
    \/ ItemRequest(1, ItemBodies, ItemPatches)
    \/ \E c \in Users : Complete(c)

SpecItems == Init /\ [][NextItems]_vars

\* the same, the issue routes alone
NextIssues ==
    \/ IssueRequest(1, IssueBodies, IssuePatches, AssignTargets, IssueStatuses, NoteInputs)
    \/ \E c \in Users : Complete(c)

SpecIssues == Init /\ [][NextIssues]_vars

\* item requests one after another, bodies of validated fields only
NextPlain ==
    \/ ItemRequest(1, ItemEdits, ItemEdits)
    \/ \E c \in Users : Complete(c)

SpecPlain == Init /\ [][NextPlain]_vars

\* item requests interleaving at their awaits; bodies of validated fields only
NextConc ==
    \/ ItemRequest(MaxInflight, ItemEdits, ItemEdits)
    \/ \E c \in Users : Complete(c)

SpecConc == Init /\ [][NextConc]_vars

\* the writing routes of both routers, called without a valid token
AnonRequest(lim) ==
    \/ \E body \in ItemEdits : ItemCreate(lim, Anon, body)
    \/ \E i \in ItemIds, patch \in ItemEdits : ItemUpdate(lim, Anon, i, patch)
    \/ \E i \in ItemIds : ItemClaim(lim, Anon, i)
    \/ \E i \in ItemIds : ItemVerify(lim, Anon, i)
    \/ \E i \in ItemIds : ItemClose(lim, Anon, i)
    \/ \E i \in ItemIds : ItemDelete(lim, Anon, i)
    \/ \E body \in IssueEdits : IssueCreate(lim, Anon, body)
    \/ \E s \in IssueIds, patch \in IssueEdits : IssueUpdate(lim, Anon, s, patch)
    \/ \E s \in IssueIds : IssueUpvote(lim, Anon, s)
    \/ \E s \in IssueIds, a \in AssignTargets : IssueAssign(lim, Anon, s, a)
    \/ \E s \in IssueIds, st \in IssueStatuses : IssueStatus(lim, Anon, s, st, Null)
    \/ \E s \in IssueIds : IssueDelete(lim, Anon, s)

\* the reading routes, called with or without a token
PublicRequest(lim) ==
    \/ \E c \in Callers : ItemList(lim, c)
    \/ \E c \in Callers, i \in ItemIds : ItemGet(lim, c, i)
    \/ \E c \in Callers : IssueList(lim, c)
    \/ \E c \in Callers, s \in IssueIds : IssueGet(lim, c, s)

\* requests one after another, with and without a token, bodies of
\* validated fields only
NextGate ==
    \/ ItemRequest(1, ItemEdits, ItemEdits)
    \/ IssueRequest(1, IssueEdits, IssueEdits, AssignTargets, IssueStatuses, NoteInputs)
    \/ AnonRequest(1)
    \/ PublicRequest(1)
    \/ \E c \in Callers : Complete(c)

SpecGate == Init /\ [][NextGate]_vars

\* two of the users are admins
InitAdmins ==
    /\ users = [u \in Users |->
                 [role |-> IF u = "u1" THEN "student" ELSE "admin", isActive |-> TRUE]]
    /\ items = [i \in ItemIds |-> Unborn]
    /\ issues = [s \in IssueIds |-> Unborn]
    /\ reqs = [c \in Callers |-> Idle]
    /\ claimWon = [i \in ItemIds |-> Null]
    /\ upHist = <<>>
    /\ client = Mounted(NoToken)

\* issue requests one after another, bodies of validated fields only, every
\* input of the assign and status routes
NextAdmin ==
    \/ IssueRequest(1, IssueEdits, IssueEdits, AdminTargets, IssueStatuses, AdminNotes)
    \/ \E c \in Users : Complete(c)

SpecAdmin == InitAdmins /\ [][NextAdmin]_vars

\* issue creates and upvote toggles interleaving at their awaits
NextUpvote ==
    \/ \E c \in Users, body \in IssueEdits : IssueCreate(MaxInflight, c, body)
    \/ \E c \in Users, s \in IssueIds : IssueUpvote(MaxInflight, c, s)
    \/ \E c \in Users : Complete(c)

SpecUpvote == Init /\ [][NextUpvote]_vars

\* item creates one after another over the bodies of every validated field
NextCreate ==
    \/ \E c \in Users, body \in CreateBodies : ItemCreate(1, c, body)
    \/ \E c \in Users : Complete(c)

SpecCreate == Init /\ [][NextCreate]_vars

\* the user routes
UserRequest(lim) ==
    \/ \E c \in Users, t \in UserIds, role \in RoleInputs : UserRole(lim, c, t, role)
    \/ \E c \in Users, t \in UserIds : UserToggleActive(lim, c, t)

\* role and toggle-active requests one after another
NextUsers ==
    \/ UserRequest(1)
    \/ \E c \in Users : Complete(c)

SpecUsers == Init /\ [][NextUsers]_vars

\* role and toggle-active requests interleaving at their awaits
NextUsersConc ==
    \/ UserRequest(MaxInflight)
    \/ \E c \in Users : Complete(c)

SpecUsersConc == Init /\ [][NextUsersConc]_vars

\* the browser after a page load, with the token of an earlier visit or
\* without one
InitClient ==
    /\ users = [u \in Users |->
                 [role |-> IF u = "adm" THEN "admin" ELSE "student", isActive |-> TRUE]]
    /\ items = [i \in ItemIds |-> Unborn]
    /\ issues = [s \in IssueIds |-> Unborn]
    /\ reqs = [c \in Callers |-> Idle]
    /\ claimWon = [i \in ItemIds |-> Null]
    /\ upHist = <<>>
    /\ \E t \in {NoToken} \cup {TokenOf(u) : u \in ClientUsers} : client = Mounted(t)

\* the calls of AuthProvider, interleaving at their awaits
NextClient ==
    \/ initAuth
    \/ \E res \in AuthAnswers : initAuthSettled(res)
    \/ \E u \in ClientUsers : login(u)
    \/ \E u \in ClientUsers : register(u)
    \/ \E res \in AuthAnswers : SignInAnswered(res)
    \/ \E res \in AuthAnswers : SignInSettled(res)
    \/ logout
    \/ updateProfile
    \/ \E res \in AuthAnswers : updateProfileSettled(res)

SpecClient == InitClient /\ [][NextClient]_vars

\* the item, issue and user routes together, requests one after another,
\* bodies of validated fields only
NextStore ==
    \/ ItemRequest(1, ItemEdits, ItemEdits)
    \/ \E c \in Users, body \in IssueEdits : IssueCreate(1, c, body)
    \/ \E c \in Users, s \in IssueIds, patch \in IssueEdits : IssueUpdate(1, c, s, patch)
    \/ \E c \in StoreVoters, s \in IssueIds : IssueUpvote(1, c, s)
    \/ \E c \in Users, s \in IssueIds, a \in StoreAssignees : IssueAssign(1, c, s, a)
    \/ \E c \in Users, s \in IssueIds, st \in StoreStatuses : IssueStatus(1, c, s, st, Null)
    \/ \E c \in Users, s \in IssueIds : IssueDelete(1, c, s)
    \/ \E c \in Users, t \in StoreTargets, role \in RoleInputs : UserRole(1, c, t, role)
    \/ \E c \in Users, t \in StoreTargets : UserToggleActive(1, c, t)
    \/ \E c \in Users : Complete(c)

SpecStore == Init /\ [][NextStore]_vars

----------------------------------------------------------------------------
(* Steps and states the properties speak of *)

\* this step answers the request of caller c
Answers(c) == reqs[c].op # "idle" /\ reqs'[c].op = "idle"

\* this step answers request op of caller c on document id with outcome
AnswersWith(c, op, id, outcome) ==
    /\ Answers(c)
    /\ reqs[c].op = op
    /\ reqs[c].id = id
    /\ reqs[c].outcome = outcome

\* the verification fields of an item (those of a fresh document when there
\* is none)
Verification(doc) ==
    IF Exists(doc) THEN <<doc.isVerified, doc.verifiedBy, doc.verifiedAt>>
    ELSE <<FALSE, Null, Null>>

----------------------------------------------------------------------------
(* Properties *)

\* C1: of the claim requests on one stored item at most one is answered
\* 200, however the requests interleave, and while the item stays claimed
\* its claimant is the caller of that request.
C1_OneClaimWins ==
    /\ [](\A i \in ItemIds :
            Exists(items[i]) /\ claimWon[i] # Null /\ items[i].status = "claimed"
                => items[i].claimedBy = claimWon[i])
    /\ [][\A c \in Users, i \in ItemIds :
            AnswersWith(c, "itemClaim", i, "ok") => claimWon[i] = Null]_vars

\* C2: requests running one after another: a claim is answered 200 only on
\* an active item whose reporter is not the caller; its write leaves the
\* item claimed by the caller; and every claim on an item that has had a
\* successful claim is answered InvalidTransition.
C2_ClaimOnce ==
    /\ [](\A c \in Users :
            reqs[c].op = "itemClaim" /\ Exists(items[reqs[c].id]) =>
                /\ reqs[c].outcome = "ok" =>
                      /\ items[reqs[c].id].status = "active"
                      /\ items[reqs[c].id].reportedBy # c
                /\ claimWon[reqs[c].id] # Null => reqs[c].outcome = "InvalidTransition")
    /\ [][\A c \in Users, i \in ItemIds :
            AnswersWith(c, "itemClaim", i, "ok") =>
                /\ Exists(items'[i])
                /\ items'[i].status = "claimed"
                /\ items'[i].claimedBy = c]_vars

\* C3: a successful update of an item or an issue leaves the document under
\* its id with the reporter and the status it had.
C3_UpdateFrame ==
    [][\A c \in Users :
        /\ \A i \in ItemIds : AnswersWith(c, "itemUpdate", i, "ok") =>
              /\ Exists(items'[i])
              /\ items'[i].reportedBy = items[i].reportedBy
              /\ items'[i].status = items[i].status
        /\ \A s \in IssueIds : AnswersWith(c, "issueUpdate", s, "ok") =>
              /\ Exists(issues'[s])
              /\ issues'[s].reportedBy = issues[s].reportedBy
              /\ issues'[s].status = issues[s].status]_vars

\* C4: a stored item has a claimant exactly when its status is claimed.
C4_ClaimantIffClaimed ==
    \A i \in ItemIds :
        Exists(items[i]) => (items[i].claimedBy # Null <=> items[i].status = "claimed")

\* C5: the claimant of a stored item, when set, is not its reporter.
C5_ClaimantNotReporter ==
    \A i \in ItemIds :
        Exists(items[i]) /\ items[i].claimedBy # Null
            => items[i].claimedBy # items[i].reportedBy

\* C6: a closed item stays closed for as long as it is stored.
C6_ClosedAbsorbing ==
    [][\A i \in ItemIds :
        Exists(items[i]) /\ items[i].status = "closed" /\ Exists(items'[i])
            => items'[i].status = "closed"]_vars

\* C7: the upvoteCount of a stored issue is the number of ids in upvotes.
C7_UpvoteCount ==
    \A s \in IssueIds :
        Exists(issues[s]) => issues[s].upvoteCount = Cardinality(issues[s].upvotes)

\* C8: two upvote toggles by one caller on one issue, answered one right
\* after the other, leave the issue with the upvotes and upvoteCount it had
\* before the first.
C8_ToggleTwice ==
    Len(upHist) = 2 =>
        /\ Exists(issues[upHist[1].id])
        /\ issues[upHist[1].id].upvotes = upHist[1].upvotes
        /\ issues[upHist[1].id].upvoteCount = upHist[1].upvoteCount

\* C8 witness: the second toggle has been answered, and the first had
\* changed the upvotes
C8_Witness ==
    /\ Len(upHist) = 2
    /\ upHist[1].upvotes # upHist[2].upvotes

OwnerOps == {"itemUpdate", "itemClose", "itemDelete", "issueUpdate", "issueDelete"}

\* the document a request is about
Target(r) == IF r.op \in ItemOps THEN items[r.id] ELSE issues[r.id]

\* what Forbidden and success do to the store
OwnerEffects ==
    \A c \in Users :
        /\ reqs[c].outcome = "Forbidden" /\ Answers(c) =>
              items' = items /\ issues' = issues
        /\ \A i \in ItemIds :
              /\ AnswersWith(c, "itemUpdate", i, "ok") => Exists(items'[i])
              /\ AnswersWith(c, "itemClose", i, "ok") =>
                    Exists(items'[i]) /\ items'[i].status = "closed"
              /\ AnswersWith(c, "itemDelete", i, "ok") => ~Exists(items'[i])
        /\ \A s \in IssueIds :
              /\ AnswersWith(c, "issueUpdate", s, "ok") => Exists(issues'[s])
              /\ AnswersWith(c, "issueDelete", s, "ok") => ~Exists(issues'[s])

C10_VerifyAdminOnly ==
    [][\A i \in ItemIds :
        Exists(items'[i]) /\ Verification(items'[i]) # Verification(items[i])
            => \E c \in Users : Answers(c) /\ users[c].role = "admin"]_vars

\* the fields of an issue that the admin routes manage
Management(doc) ==
    <<doc.status, doc.assignedTo, doc.resolvedAt, doc.resolvedBy, doc.resolutionNotes>>

\* C11: the status, assignee and resolution fields of a stored issue change
\* only in the write of an assign or status request whose caller is an
\* admin; no other request, the reporter's update included, changes them.
C11_ManagementAdminOnly ==
    [][\A s \in IssueIds :
        Exists(issues[s]) /\ Exists(issues'[s])
            /\ Management(issues'[s]) # Management(issues[s])
            => \E c \in Users :
                  /\ Answers(c)
                  /\ reqs[c].op \in {"issueAssign", "issueStatus"}
                  /\ users[c].role = "admin"]_vars

\* what the write of a role or toggle-active request does to the users
UserEffects ==
    \A c \in Users, t \in UserIds :
        /\ Answers(c) /\ reqs[c].op \in UserOps /\ reqs[c].outcome # "ok" =>
              users' = users
        /\ AnswersWith(c, "userRole", t, "ok") =>
              users' = [users EXCEPT ![t].role = reqs[c].arg.role]
        /\ AnswersWith(c, "userToggle", t, "ok") =>
              users' = [users EXCEPT ![t].isActive = ~users[t].isActive]

\* C12: a role or toggle-active request of an admin on their own id is
\* rejected and leaves the users as they were; on another user, an admin
\* included, it is answered 200 and sets that user's role to the requested
\* one / flips that user's isActive.  (A role outside student/admin is no
\* role of the data model: such a request is answered ValidationError.)
C12_SelfProtection ==
    /\ [](\A c \in Users :
            reqs[c].op \in UserOps /\ users[c].role = "admin" /\ users[c].isActive
                /\ reqs[c].outcome # "ValidationError" =>
                /\ reqs[c].id = c => reqs[c].outcome = "SelfActionError"
                /\ reqs[c].id \in Users \ {c} => reqs[c].outcome = "ok")
    /\ [](\A c \in Users :
            reqs[c].outcome = "ValidationError" => reqs[c].op = "userRole")
    /\ [][UserEffects]_vars

\* C12 witness: two admins; one has asked for the demotion of the other
\* and is about to be answered 200
C12_Witness ==
    \E c \in Users :
        /\ reqs[c].op = "userRole"
        /\ reqs[c].outcome = "ok"
        /\ reqs[c].arg.role = "student"
        /\ reqs[c].id # c
        /\ users[reqs[c].id].role = "admin"

WriteOps == ItemOps \cup IssueOps

\* C13: without a valid token every writing route of items and issues is
\* answered Unauthenticated and leaves every record as it was; the list
\* routes are answered 200, and so is get on a stored document.
C13_WritesNeedCaller ==
    /\ [](/\ reqs[Anon].op \in WriteOps => reqs[Anon].outcome = "Unauthenticated"
          /\ reqs[Anon].op \in {"itemList", "issueList"} => reqs[Anon].outcome = "ok"
          /\ reqs[Anon].op = "itemGet" /\ Exists(items[reqs[Anon].id]) =>
                reqs[Anon].outcome = "ok"
          /\ reqs[Anon].op = "issueGet" /\ Exists(issues[reqs[Anon].id]) =>
                reqs[Anon].outcome = "ok")
    /\ [][Answers(Anon) =>
            items' = items /\ issues' = issues /\ users' = users]_vars

\* C13 witness: a claim without a token on a stored active item is about to
\* be answered Unauthenticated
C13_Witness ==
    /\ reqs[Anon].op = "itemClaim"
    /\ reqs[Anon].outcome = "Unauthenticated"
    /\ Exists(items[reqs[Anon].id])
    /\ items[reqs[Anon].id].status = "active"

\* C14: the document an item create answered 201 stores has status active,
\* the caller as reporter, no claimant and isVerified false, whatever fields
\* the body carries.
C14_ItemCreateDefaults ==
    [][\A c \in Users, i \in ItemIds :
        AnswersWith(c, "itemCreate", Null, "ok") /\ ~Exists(items[i]) /\ Exists(items'[i])
            => /\ items'[i].status = "active"
               /\ items'[i].reportedBy = c
               /\ items'[i].claimedBy = Null
               /\ items'[i].isVerified = FALSE]_vars

\* C15: the document an issue create answered 201 stores has status
\* pending, no upvotes, upvoteCount 0 and the caller as reporter, whatever
\* fields the body carries.
C15_IssueCreateDefaults ==
    [][\A c \in Users, s \in IssueIds :
        AnswersWith(c, "issueCreate", Null, "ok") /\ ~Exists(issues[s]) /\ Exists(issues'[s])
            => /\ issues'[s].status = "pending"
               /\ issues'[s].upvotes = {}
               /\ issues'[s].upvoteCount = 0
               /\ issues'[s].reportedBy = c]_vars

\* C16: the write of an assign answered 200, whatever the status of the
\* issue, sets assignedTo to the assignee of the request and status to
\* in-progress and leaves upvotes, reporter, resolvedAt and resolvedBy as
\* they were.
C16_AssignForcesInProgress ==
    [][\A c \in Users, s \in IssueIds :
        AnswersWith(c, "issueAssign", s, "ok") =>
            /\ Exists(issues'[s])
            /\ issues'[s].assignedTo = reqs[c].arg.assignedTo
            /\ issues'[s].status = "in-progress"
            /\ issues'[s].upvotes = issues[s].upvotes
            /\ issues'[s].reportedBy = issues[s].reportedBy
            /\ issues'[s].resolvedAt = issues[s].resolvedAt
            /\ issues'[s].resolvedBy = issues[s].resolvedBy]_vars

\* C16 witness: an assign on a resolved issue, with upvotes and a resolver
\* stored, is about to be answered 200
C16_Witness ==
    \E c \in Users :
        /\ reqs[c].op = "issueAssign"
        /\ reqs[c].outcome = "ok"
        /\ issues[reqs[c].id].status = "resolved"
        /\ issues[reqs[c].id].resolvedBy # Null
        /\ issues[reqs[c].id].upvotes # {}

\* C17: an assign answered 200 names a user as assignee (an assignee id
\* no user has is turned down), so the assignee of a stored issue, when
\* set, is a user.
C17_AssigneeExists ==
    /\ \A c \in Users :
          reqs[c].op = "issueAssign" /\ reqs[c].outcome = "ok"
              => reqs[c].arg.assignedTo \in Users
    /\ \A s \in IssueIds :
          Exists(issues[s]) /\ issues[s].assignedTo # Null
              => issues[s].assignedTo \in Users

\* C18: the write of a status request answered 200 whose target is
\* resolved leaves the issue resolved with resolvedAt set and the caller as
\* resolvedBy, whoever had resolved it before.
C18_ResolverIsCaller ==
    [][\A c \in Users, s \in IssueIds :
        AnswersWith(c, "issueStatus", s, "ok") /\ reqs[c].arg.status = "resolved" =>
            /\ Exists(issues'[s])
            /\ issues'[s].status = "resolved"
            /\ issues'[s].resolvedAt # Null
            /\ issues'[s].resolvedBy = c]_vars

\* C18 witness: an admin's status request with target resolved, on an
\* issue another admin has resolved, is about to be answered 200
C18_Witness ==
    \E c \in Users :
        /\ reqs[c].op = "issueStatus"
        /\ reqs[c].outcome = "ok"
        /\ reqs[c].arg.status = "resolved"
        /\ issues[reqs[c].id].status = "resolved"
        /\ issues[reqs[c].id].resolvedBy \notin {Null, c}

\* the resolution stamp of an issue
Resolution(doc) == <<doc.resolvedAt, doc.resolvedBy>>

\* this step answers 200 a status request of target resolved on issue s
Resolves(s) ==
    \E c \in Users :
        AnswersWith(c, "issueStatus", s, "ok") /\ reqs[c].arg.status = "resolved"

\* C19: resolvedAt and resolvedBy of a stored issue are set whenever its
\* status is resolved; a step changes them only by answering a status
\* request of target resolved, and a step that makes the status resolved
\* is such a step.
C19_ResolutionIffResolved ==
    /\ [](\A s \in IssueIds :
            Exists(issues[s]) /\ issues[s].status = "resolved"
                => issues[s].resolvedAt # Null /\ issues[s].resolvedBy # Null)
    /\ [][\A s \in IssueIds :
            /\ Exists(issues[s]) /\ Exists(issues'[s])
                  /\ Resolution(issues'[s]) # Resolution(issues[s]) => Resolves(s)
            /\ Exists(issues'[s]) /\ issues'[s].status = "resolved"
                  /\ issues[s].status # "resolved" => Resolves(s)
            /\ ~Exists(issues[s]) /\ Exists(issues'[s])
                  => Resolution(issues'[s]) = <<Null, Null>>]_vars

\* C20: an admin's status request on a stored issue is answered 200
\* whatever the status of the issue and the target, and its write leaves
\* the issue in the target status.
C20_NoTransitionTable ==
    /\ [](\A c \in Users :
            reqs[c].op = "issueStatus" /\ Exists(issues[reqs[c].id])
                /\ users[c].role = "admin" /\ users[c].isActive
                => reqs[c].outcome = "ok")
    /\ [][\A c \in Users, s \in IssueIds :
            AnswersWith(c, "issueStatus", s, "ok") =>
                /\ Exists(issues'[s])
                /\ issues'[s].status = reqs[c].arg.status]_vars

\* C20 witness: a status request that takes a closed issue back to pending
\* is about to be answered 200
C20_Witness ==
    \E c \in Users :
        /\ reqs[c].op = "issueStatus"
        /\ reqs[c].outcome = "ok"
        /\ reqs[c].arg.status = "pending"
        /\ issues[reqs[c].id].status = "closed"

\* an issue without its upvotes and upvoteCount
BesidesUpvotes(doc) == [k \in DOMAIN doc \ {"upvotes", "upvoteCount"} |-> doc[k]]

Toggled(upvotes, c) == IF c \in upvotes THEN upvotes \ {c} ELSE upvotes \cup {c}

\* the write of a toggle of caller c on issue s flips c's membership
TakesEffect(c, s) ==
    AnswersWith(c, "issueUpvote", s, "ok") /\ Exists(issues[s]) =>
        issues'[s].upvotes = Toggled(issues[s].upvotes, c)

\* C22: however the toggles of different users on one issue interleave,
\* the write of each flips the membership of its caller in upvotes and
\* leaves upvoteCount at the new size of upvotes (so two upvotes on an
\* issue nobody had upvoted leave two ids and upvoteCount 2, and a further
\* toggle by one of the two leaves the other id and upvoteCount 1).
C22_TogglesTakeEffect ==
    [][\A c \in Users, s \in IssueIds :
        /\ TakesEffect(c, s)
        /\ AnswersWith(c, "issueUpvote", s, "ok") /\ Exists(issues[s]) =>
              issues'[s].upvoteCount = Cardinality(issues'[s].upvotes)]_vars

C24_VerifyFrame ==
    /\ [](\A c \in Users :
            reqs[c].op = "itemVerify" /\ users[c].isActive =>
                /\ users[c].role = "admin" /\ Exists(items[reqs[c].id])
                      => reqs[c].outcome = "ok"
                /\ users[c].role # "admin" => reqs[c].outcome = "Forbidden")
    /\ [][\A c \in Users, i \in ItemIds :
            /\ AnswersWith(c, "itemVerify", i, "ok") =>
                  /\ Exists(items'[i])
                  /\ items'[i].isVerified = TRUE
                  /\ items'[i].verifiedBy = c
                  /\ items'[i].status = items[i].status
                  /\ items'[i].reportedBy = items[i].reportedBy
                  /\ items'[i].claimedBy = items[i].claimedBy
            /\ AnswersWith(c, "itemVerify", i, "Forbidden") => items' = items]_vars

\* C24 witness: an admin's verify of a claimed item is about to be
\* answered 200
C24_Witness ==
    \E c \in Users :
        /\ reqs[c].op = "itemVerify"
        /\ reqs[c].outcome = "ok"
        /\ items[reqs[c].id].status = "claimed"
        /\ items[reqs[c].id].claimedBy # Null

\* the requests that name a document by its id, and that document
ByIdOps == (WriteOps \cup {"itemGet", "issueGet"}) \ {"itemCreate", "issueCreate"}
Named(r) == IF r.op \in ItemOps \cup {"itemGet"} THEN items[r.id] ELSE issues[r.id]

\* a deleted document stays deleted
StaysGone ==
    /\ \A i \in ItemIds : items[i] = Gone => items'[i] = Gone
    /\ \A s \in IssueIds : issues[s] = Gone => issues'[s] = Gone

C26_NotFoundAlways ==
    [][\A c \in Users :
        Answers(c) /\ reqs[c].op \in ByIdOps /\ ~Exists(Named(reqs[c])) =>
            Response(reqs[c]) \in
                {"NotFound", "Unauthenticated", "AccountDisabled", "Forbidden",
                 "ValidationError"}]_vars

\* the days of a month (February of a leap year)
DaysIn(month) ==
    IF month = 2 THEN 29 ELSE IF month \in {4, 6, 9, 11} THEN 30 ELSE 31

\* the field constraints of item create: title 5-100 characters,
\* description 10-500, category and type of their enumerations, location
\* 3-100, date a day of the calendar, images a non-empty list, phone ten
\* digits, email well-formed
Violates(f, v) ==
    CASE f = "title" -> v < 5 \/ v > 100
      [] f = "description" -> v < 10 \/ v > 500
      [] f = "category" -> v \notin ItemCategories
      [] f = "type" -> v \notin {"lost", "found"}
      [] f = "location" -> v < 3 \/ v > 100
      [] f = "date" -> ~(v.month \in 1..12 /\ v.day \in 1..DaysIn(v.month))
      [] f = "images" -> v = 0
      [] f = "phone" -> v # 10
      [] f = "email" -> v # "a@b.c"

Violated(body) == {f \in ItemChains \cap DOMAIN body : Violates(f, body[f])}

\* C27: an item create is answered ValidationError exactly when a
\* validated field of its body violates its constraint; the answer lists
\* the violated fields and no other, and nothing is stored.
C27_CreateValidation ==
    /\ [](\A c \in Users :
            reqs[c].op = "itemCreate" =>
                /\ reqs[c].outcome = "ok" => Violated(reqs[c].arg) = {}
                /\ reqs[c].outcome = "ValidationError" =>
                      /\ Violated(reqs[c].arg.body) # {}
                      /\ reqs[c].arg.errors = Violated(reqs[c].arg.body))
    /\ [][\A c \in Users :
            AnswersWith(c, "itemCreate", Null, "ValidationError") => items' = items]_vars

\* C28: a claim is checked for existence, then status, then own item: on a
\* stored item that is not active it is answered InvalidTransition, to the
\* reporter as well; SelfActionError is the answer only on an active item
\* whose reporter is the caller.
C28_ClaimCheckOrder ==
    \A c \in Users :
        reqs[c].op = "itemClaim" /\ users[c].isActive =>
            /\ ~Exists(items[reqs[c].id]) => reqs[c].outcome = "NotFound"
            /\ Exists(items[reqs[c].id]) =>
                  /\ items[reqs[c].id].status # "active"
                        => reqs[c].outcome = "InvalidTransition"
                  /\ reqs[c].outcome = "SelfActionError" <=>
                        /\ items[reqs[c].id].status = "active"
                        /\ items[reqs[c].id].reportedBy = c

\* C28 witness: the reporter's claim of their own item, which is not
\* active, is about to be answered InvalidTransition
C28_Witness ==
    \E c \in Users :
        /\ reqs[c].op = "itemClaim"
        /\ Exists(items[reqs[c].id])
        /\ items[reqs[c].id].reportedBy = c
        /\ items[reqs[c].id].status # "active"
        /\ reqs[c].outcome = "InvalidTransition"

\* C29: a role or toggle-active request on the caller's own id is turned
\* down by the own-account check, whatever the role of the caller: it is
\* answered SelfActionError, not the Forbidden of the admin check.
C29_SelfCheckFirst ==
    \A c \in Users :
        reqs[c].op \in UserOps /\ users[c].isActive /\ reqs[c].id = c
            /\ reqs[c].outcome # "ValidationError"
            => reqs[c].outcome = "SelfActionError"

ErrorOutcomes ==
    {"ValidationError", "Forbidden", "NotFound", "InvalidTransition", "SelfActionError"}

\* C31: a request on the items, issues or users that is answered with
\* ValidationError, Forbidden, NotFound, InvalidTransition or
\* SelfActionError leaves every stored item, issue and user as it was, at
\* its read and checks as well as at its answer.
C31_ErrorsChangeNothing ==
    [][\A c \in Users :
        /\ reqs[c].op = "idle" /\ reqs'[c].op # "idle" =>
              UNCHANGED <<users, items, issues>>
        /\ Answers(c) /\ reqs[c].outcome \in ErrorOutcomes =>
              UNCHANGED <<users, items, issues>>]_vars

\* C31 witness: a delete of a stored item by a student who did not report
\* it is about to be answered Forbidden
C31_Witness ==
    \E c \in Users :
        /\ reqs[c].op = "itemDelete"
        /\ reqs[c].outcome = "Forbidden"
        /\ Exists(items[reqs[c].id])
        /\ items[reqs[c].id].reportedBy # c

\* C32: some user has role admin and is active, in every state the role
\* and toggle-active requests lead to, interleaved requests of different
\* admins included.
C32_AdminRemains ==
    \E u \in Users : users[u].role = "admin" /\ users[u].isActive

\* C33: the write of a toggle-active request answered 200 flips the
\* isActive of its target, so that two such requests on one user, run one
\* after the other or interleaved, leave the flag as it was.
C33_ToggleFlipsOnce ==
    [][\A c \in Users, t \in Users :
        AnswersWith(c, "userToggle", t, "ok") =>
            users'[t].isActive = ~users[t].isActive]_vars

\* C34: while the getCurrentUser of a login or register waits for its
\* response, local storage holds the token the server returned and the
\* request carries it; and a login or register that fails leaves the user
\* state and the stored token as they were.
C34_TokenBeforeMe ==
    /\ [](client.auth.pc = "me" =>
            /\ client.token = client.auth.token
            /\ client.auth.sent = client.auth.token)
    /\ [][client.auth.pc # "idle" /\ client'.auth.pc = "idle"
            /\ client'.toast = "error" /\ client'.auth # client.auth =>
                /\ client'.user = client.user
                /\ client'.token = client.token]_vars

\* C35: from logout until a login or register succeeds the user is null
\* and local storage holds no token, also when a call issued before the
\* logout settles after it; and in every state in which isAuthenticated is
\* true a token is stored.
C35_LoggedOutStays ==
    /\ [](client.loggedOut => ~isAuthenticated /\ ~HasToken)
    /\ [](isAuthenticated => HasToken)

====
